---- MODULE Spec2Model ----
(***************************************************************************)
(* Session lifecycle and conversation-memory windowing of the Groq chat    *)
(* front-end (src/main.py and src/final.py).                               *)
(*                                                                         *)
(* Both files are Streamlit scripts: every user event re-executes the      *)
(* whole script from the top against the persistent st.session_state and   *)
(* the current widget values.  One action of this model is one script run; *)
(* the run is computed by the operator main, which follows the script      *)
(* statement by statement.  st.rerun() ends the current run and queues a   *)
(* further run with the same widget values and every button released; the  *)
(* queued run is the only step enabled while pendingRerun holds.           *)
(*                                                                         *)
(* Texts are sequences of characters so that emptiness (Python truthiness) *)
(* and whitespace-only are different, computed properties of a text.       *)
(***************************************************************************)
EXTENDS Integers, Sequences, FiniteSets, TLC

\* ---------------------------------------------------------------- bounds
MaxHist == 3          \* longest chat_history explored
MaxTime == 1          \* last clock value explored

\* ------------------------------------------------------ program constants
MinMemory == 1        \* st.slider(..., 1, 10, 5)
MaxMemory == 10
DefaultMemory == 5

\* ------------------------------------------------------------ input sets
MemoryLengths == MinMemory..MaxMemory
Texts == { <<>>, <<" ">>, <<"a">> }
Replies == { "r1" }
Apps == { "main", "final" }
Keys == { "unset", "empty", "valid" }

None == <<>>
Some(x) == <<x>>

\* Python truthiness of a str / of an Optional value
Truthy(v) == Len(v) > 0

\* a text that is empty or consists only of whitespace
IsBlank(t) == \A i \in 1..Len(t) : t[i] = " "

VARIABLES
  app,            \* which script is deployed
  api_key,        \* the GROQ_API_KEY environment entry
  session_state,  \* st.session_state: chat_history, total_message, start_time
  memory_length,  \* the slider widget
  user_input,     \* the text_area widget (key="user_input")
  now,            \* datetime.now()
  pendingRerun,   \* st.rerun() was called by the last run
  obs,            \* what the last script run did, and the state it started in
  clearedUnseen,  \* a clear emptied a non-empty history and the statistics
                  \* block has not been displayed since
  sinceClear,     \* messages appended since the last clear
  clearStreak,    \* session states left by the clears clicked in a row
  topicPending,   \* New Topic was clicked and no completion call made since
  topicHist       \* chat_history at that New Topic click

vars == << app, api_key, session_state, memory_length, user_input, now,
           pendingRerun, obs, clearedUnseen, sinceClear, clearStreak,
           topicPending, topicHist >>

\* -------------------------------------------------------- session state
initialize_session_state ==
  [ chat_history |-> <<>>, total_message |-> 0, start_time |-> None ]

\* mutants of clear_chat_history: one field is left as it was
clear_keeps_start_time(ss) == [ ss EXCEPT !.chat_history = <<>> ]
clear_keeps_history(ss) == [ ss EXCEPT !.start_time = None ]

\* body of the "Clear Chat History" branch
clear_chat_history(ss) ==
  [ ss EXCEPT !.chat_history = <<>>, !.start_time = None ]

\* mutant of recordStart: the guard on start_time is dropped
recordStart_unguarded(ss, t) == [ ss EXCEPT !.start_time = Some(t) ]

\* if not st.session_state.start_time: st.session_state.start_time = now()
recordStart(ss, t) ==
  IF Truthy(ss.start_time) THEN ss ELSE [ ss EXCEPT !.start_time = Some(t) ]

\* mutant of append: the message is inserted at the front
append_at_front(ss, message) ==
  [ ss EXCEPT !.chat_history = << message >> \o @ ]

\* st.session_state.chat_history.append(message)
append(ss, message) ==
  [ ss EXCEPT !.chat_history = Append(@, message) ]

\* the Messages metric, displayed only while start_time is set
display_chat_statistics(ss) ==
  IF Truthy(ss.start_time) THEN Some(Len(ss.chat_history)) ELSE None

\* ------------------------------------------------- conversation memory
\* for message in chat_history: memory.save_context(...)
RECURSIVE save_context(_, _)
save_context(buffer, history) ==
  IF history = <<>> THEN buffer
  ELSE save_context(Append(buffer, Head(history)), Tail(history))

\* ConversationBufferWindowMemory(k): the turns handed to the prompt
window(buffer, k) ==
  IF Len(buffer) <= k THEN buffer
  ELSE SubSeq(buffer, Len(buffer) - k + 1, Len(buffer))

\* handle_new_topic: memory.clear() on this run's memory object
handle_new_topic(buffer, clicked) ==
  IF clicked THEN <<>> ELSE buffer

\* ------------------------------------------------------- the credential
\* main.py reads os.environ['GROQ_API_KEY'] (KeyError when unset);
\* final.py reads os.getenv('GROQ_API_KEY') (None when unset)
KeyLookupRaises(a, key) == a = "main" /\ key = "unset"

\* ChatGroq(groq_api_key=..., model_name=...): neither script checks the
\* key before constructing the client.  An absent key makes the client
\* constructor raise; an empty string is rejected by some releases of the
\* client library and accepted by others, so both outcomes are allowed.
ChatGroqOutcomes(key) ==
  CASE key = "valid" -> { TRUE }
    [] key = "empty" -> { TRUE, FALSE }
    [] OTHER         -> { FALSE }

\* results the hosted client can produce for a call
ClientResults(key, ss) ==
  IF key = "valid"
  THEN { [ ok |-> FALSE, text |-> "network" ] } \cup
       ( IF Len(ss.chat_history) < MaxHist
         THEN { [ ok |-> TRUE, text |-> r ] : r \in Replies } ELSE {} )
  ELSE { [ ok |-> FALSE, text |-> "auth" ] }

\* ---------------------------------------------------------- a script run
NoObs(ev) ==
  [ event |-> ev, question |-> <<>>, stats |-> None, cleared |-> FALSE,
    topic |-> FALSE, called |-> FALSE, prior |-> <<>>, result |-> None,
    appended |-> FALSE, error |-> None, uncaught |-> "none",
    before |-> initialize_session_state, unseen |-> FALSE,
    firstAfterTopic |-> FALSE ]

\* mutant of handle_send_button: the human turn is appended before the call,
\* so a failing call leaves half an exchange behind
handle_send_button_early_append(ss, buffer, k, user_question, res, o) ==
  LET o1 == [ o EXCEPT !.called = TRUE, !.prior = window(buffer, k),
                       !.result = Some(res), !.appended = TRUE ]
      ss1 == [ ss EXCEPT !.chat_history =
                 Append(@, [ human |-> user_question,
                             AI |-> IF res.ok THEN res.text ELSE "" ]) ]
  IN IF res.ok
     THEN [ ss |-> ss1, rerun |-> TRUE, obs |-> o1 ]
     ELSE [ ss |-> ss1, rerun |-> FALSE,
            obs |-> [ o1 EXCEPT !.error = Some(res.text) ] ]

\* try: response = conversation(user_question); append; st.rerun()
\* except Exception as e: st.error(...)
handle_send_button(ss, buffer, k, user_question, res, o) ==
  LET o1 == [ o EXCEPT !.called = TRUE, !.prior = window(buffer, k),
                       !.result = Some(res) ]
  IN IF res.ok
     THEN [ ss |-> append(ss, [ human |-> user_question, AI |-> res.text ]),
            rerun |-> TRUE,
            obs |-> [ o1 EXCEPT !.appended = TRUE ] ]
     ELSE [ ss |-> ss, rerun |-> FALSE,
            obs |-> [ o1 EXCEPT !.error = Some(res.text) ] ]

\* if send_button and user_question: ... (the guard of both scripts)
SendGuard(send_button, user_question) == send_button /\ Truthy(user_question)

\* an uncaught exception ends the run: Streamlit prints it, nothing else
\* of the script executes
Uncaught(ss, o, exc) ==
  [ ss |-> ss, rerun |-> FALSE, obs |-> [ o EXCEPT !.uncaught = exc ] ]

\* One execution of final.py.  key: credential; ss: session state on entry;
\* send/clear/topic: the buttons; k, text: widget values; ctorOk: outcome of
\* the client constructor; res: outcome of the call if one is made; t: the
\* clock.
final_py(key, ss, ev, send, clear, topic, text, k, ctorOk, res, t) ==
  LET o0 == [ NoObs(ev) EXCEPT !.question = text,
                               !.stats = display_chat_statistics(ss) ]
  IN
  IF clear
  THEN [ ss |-> clear_chat_history(ss), rerun |-> TRUE,
         obs |-> [ o0 EXCEPT !.cleared = TRUE ] ]
  ELSE IF ~ctorOk THEN Uncaught(ss, o0, "ChatGroq")
  ELSE
  LET buffer == handle_new_topic(save_context(<<>>, ss.chat_history), topic)
      o1 == [ o0 EXCEPT !.topic = topic ]
  IN IF SendGuard(send, text)
     THEN handle_send_button(recordStart(ss, t), buffer, k, text, res, o1)
     ELSE [ ss |-> ss, rerun |-> FALSE, obs |-> o1 ]

\* One execution of main.py, same parameters.  main.py never imports
\* datetime, so both uses of datetime.now() raise NameError; its call block
\* is not inside the "if send_button and user_question".
main_py(key, ss, ev, send, clear, topic, text, k, ctorOk, res, t) ==
  LET o0 == [ NoObs(ev) EXCEPT !.question = text ] IN
  IF KeyLookupRaises("main", key) THEN Uncaught(ss, o0, "KeyError")
  ELSE
  LET o1 == [ o0 EXCEPT !.stats = display_chat_statistics(ss) ] IN
  IF Truthy(ss.start_time) THEN Uncaught(ss, o1, "NameError")
  ELSE IF clear
  THEN [ ss |-> clear_chat_history(ss), rerun |-> TRUE,
         obs |-> [ o1 EXCEPT !.cleared = TRUE ] ]
  ELSE IF ~ctorOk THEN Uncaught(ss, o1, "ChatGroq")
  ELSE
  LET buffer == handle_new_topic(save_context(<<>>, ss.chat_history), topic)
      o2 == [ o1 EXCEPT !.topic = topic ]
  IN IF SendGuard(send, text) /\ ~Truthy(ss.start_time)
     THEN Uncaught(ss, o2, "NameError")
     ELSE handle_send_button(ss, buffer, k, text, res, o2)

\* the deployed script
main(a, key, ss, ev, send, clear, topic, text, k, ctorOk, res, t) ==
  IF a = "final"
  THEN final_py(key, ss, ev, send, clear, topic, text, k, ctorOk, res, t)
  ELSE main_py(key, ss, ev, send, clear, topic, text, k, ctorOk, res, t)

\* ------------------------------------------------------------- actions
Init ==
  /\ app \in Apps
  /\ api_key \in Keys
  /\ session_state = initialize_session_state
  /\ memory_length = DefaultMemory
  /\ user_input = <<>>
  /\ now = 0
  /\ pendingRerun = FALSE
  /\ obs = NoObs("init")
  /\ clearedUnseen = FALSE
  /\ sinceClear = 0
  /\ clearStreak = <<>>
  /\ topicPending = FALSE
  /\ topicHist = <<>>

\* A script run.  queued: the run was queued by st.rerun() and not caused by
\* a user event.
Run(ev, queued, send, clear, topic, text, k) ==
  \E ctorOk \in ChatGroqOutcomes(api_key) :
  \E res \in ClientResults(api_key, session_state) :
    LET r == main(app, api_key, session_state, ev, send, clear, topic,
                  text, k, ctorOk, res, now)
    IN /\ session_state' = r.ss
       /\ pendingRerun' = r.rerun
       /\ obs' = [ r.obs EXCEPT
                     !.before = session_state,
                     !.unseen = clearedUnseen,
                     !.firstAfterTopic =
                        r.obs.called /\ (r.obs.topic \/ topicPending) ]
       /\ user_input' = text
       /\ memory_length' = k
       /\ clearedUnseen' =
            IF r.obs.cleared
            THEN Len(session_state.chat_history) > 0
                 \/ (clearedUnseen /\ ~Truthy(r.obs.stats))
            ELSE clearedUnseen /\ ~Truthy(r.obs.stats)
       /\ sinceClear' =
            IF r.obs.cleared THEN 0
            ELSE IF r.obs.appended THEN sinceClear + 1 ELSE sinceClear
       /\ clearStreak' =
            IF r.obs.cleared
            THEN IF clearStreak = <<>> THEN << r.ss >>
                 ELSE << clearStreak[1], r.ss >>
            ELSE IF queued THEN clearStreak ELSE <<>>
       /\ topicPending' =
            IF r.obs.called THEN FALSE
            ELSE IF r.obs.topic THEN TRUE ELSE topicPending
       /\ topicHist' =
            IF r.obs.topic THEN session_state.chat_history
            ELSE IF topicPending THEN topicHist ELSE <<>>
       /\ UNCHANGED << app, api_key, now >>

Send(text) ==
  /\ ~pendingRerun
  /\ Run("send", FALSE, TRUE, FALSE, FALSE, text, memory_length)

ClearClick ==
  /\ ~pendingRerun
  /\ Run("clear", FALSE, FALSE, TRUE, FALSE, user_input, memory_length)

NewTopicClick ==
  /\ ~pendingRerun
  /\ Run("newtopic", FALSE, FALSE, FALSE, TRUE, user_input, memory_length)

SliderChange(k) ==
  /\ ~pendingRerun
  /\ k # memory_length
  /\ Run("other", FALSE, FALSE, FALSE, FALSE, user_input, k)

TextChange(text) ==
  /\ ~pendingRerun
  /\ text # user_input
  /\ Run("other", FALSE, FALSE, FALSE, FALSE, text, memory_length)

\* the persona or the model select box changed
SelectorChange ==
  /\ ~pendingRerun
  /\ Run("other", FALSE, FALSE, FALSE, FALSE, user_input, memory_length)

\* the run queued by st.rerun(): same widget values, every button released
Rerun ==
  /\ pendingRerun
  /\ Run("other", TRUE, FALSE, FALSE, FALSE, user_input, memory_length)

Tick ==
  /\ now < MaxTime
  /\ now' = now + 1
  /\ UNCHANGED << app, api_key, session_state, memory_length, user_input,
                  pendingRerun, obs, clearedUnseen, sinceClear, clearStreak,
                  topicPending, topicHist >>

Next ==
  \/ \E text \in Texts : Send(text)
  \/ ClearClick
  \/ NewTopicClick
  \/ \E k \in MemoryLengths : SliderChange(k)
  \/ \E text \in Texts : TextChange(text)
  \/ SelectorChange
  \/ Rerun
  \/ Tick

Spec == Init /\ [][Next]_vars

TypeOK ==
  /\ app \in Apps
  /\ api_key \in Keys
  /\ memory_length \in MemoryLengths
  /\ user_input \in Texts
  /\ now \in 0..MaxTime
  /\ pendingRerun \in BOOLEAN
  /\ Len(session_state.chat_history) <= MaxHist
  /\ session_state.total_message = 0
  /\ sinceClear = Len(session_state.chat_history)

\* ---------------------------------------------------------------- claims
history == session_state.chat_history
start_time == session_state.start_time

\* a Send click with a non-empty text, in a run that reached the call
AttemptedSend == obs.event = "send" /\ Truthy(obs.question) /\ obs.called
CallFailed == obs.called /\ ~obs.result[1].ok
CallSucceeded == obs.called /\ obs.result[1].ok

\* C1: in final.py a Send of a non-empty text whose client call succeeds
\* leaves chat_history equal to the history the run started with plus one
\* message at the end, human = the submitted text, AI = the client's reply.
C1_SendAppendsOne ==
  (app = "final" /\ AttemptedSend /\ CallSucceeded) =>
     history = Append(obs.before.chat_history,
                      [ human |-> obs.question, AI |-> obs.result[1].text ])

C1_Witness ==
  /\ app = "final" /\ AttemptedSend /\ CallSucceeded
  /\ Len(obs.before.chat_history) = 2
  /\ obs.before.chat_history[1] # obs.before.chat_history[2]

\* C2: in both scripts a client call that raises is caught (no uncaught
\* exception ends the run), its message is shown with st.error, chat_history
\* is what it was when the run started, and the session accepts events again.
C2_FailedCallLeavesHistory ==
  CallFailed =>
     /\ obs.uncaught = "none"
     /\ obs.error = Some(obs.result[1].text)
     /\ ~obs.appended
     /\ history = obs.before.chat_history
     /\ ~pendingRerun

C2_Witness ==
  /\ CallFailed /\ app = "main" /\ Len(history) = 2
  /\ obs.error = Some("network")

\* C3: a run whose text is empty or whitespace-only never invokes the client
\* and never appends to chat_history.
C3_BlankNeverCalls ==
  IsBlank(obs.question) => ~obs.called /\ ~obs.appended

\* C4: the turns replayed to the model on a completion call are the
\* min(K, N) most recent entries of chat_history, oldest first.
C4_WindowIsLastK ==
  obs.called =>
     LET h == obs.before.chat_history
         n == Len(h)
         m == IF memory_length < n THEN memory_length ELSE n
     IN obs.prior = [ i \in 1..m |-> h[n - m + i] ]

\* C5: in final.py start_time becomes set at the first attempted send,
\* whether the call succeeds or fails; while set, no run changes its value;
\* only the clear-history branch unsets it, and that run empties
\* chat_history too.
C5_StartTimeSetOnce ==
  app = "final" =>
     /\ Truthy(obs.before.start_time) /\ ~obs.cleared
          => start_time = obs.before.start_time
     /\ Truthy(obs.before.start_time) /\ start_time # obs.before.start_time
          => obs.cleared /\ start_time = None /\ history = <<>>
     /\ ~Truthy(obs.before.start_time) /\ Truthy(start_time)
          => AttemptedSend /\ start_time[1] <= now
     /\ AttemptedSend => Truthy(start_time)

C5_Witness ==
  /\ app = "final" /\ AttemptedSend /\ CallFailed
  /\ Truthy(obs.before.start_time)
  /\ start_time = obs.before.start_time
  /\ start_time[1] < now

\* C6: with a usable credential, a run calls the client exactly when it is a
\* Send click with a non-empty text, so that over any sequence of events the
\* number of calls equals the number of such Sends (each run holds at most
\* one call and at most one Send) and no call follows a successful one
\* before the next Send.
C6_OneCallPerSend ==
  api_key = "valid" =>
     (obs.called <=> (obs.event = "send" /\ Truthy(obs.question)))

C8_NoCallWithoutKey ==
  api_key \in { "unset", "empty" } => ~obs.called

\* C9 as stated: in final.py the first statistics block displayed after a
\* clear of a session that held messages shows 0 messages.
C9_NextStatsShowZero ==
  (app = "final" /\ obs.unseen /\ Truthy(obs.stats)) => obs.stats = Some(0)

\* C9 amended: in final.py, after a clear of a session that held messages
\* the statistics block stays hidden until a send has been attempted, and
\* the first block displayed after the clear shows the number of messages
\* appended since the clear: 0 if the first send after the clear failed,
\* 1 if it succeeded; never the messages held before the clear.
C9_NextStatsCountSinceClear ==
  app = "final" =>
     /\ (obs.unseen /\ Truthy(obs.stats)) =>
           /\ obs.stats[1] \in { 0, 1 }
           /\ obs.stats[1] + (IF obs.appended THEN 1 ELSE 0) = sinceClear
     /\ clearedUnseen => start_time = None \/ AttemptedSend

C9_Witness ==
  /\ app = "final" /\ obs.unseen /\ obs.stats = Some(1)
  /\ ~clearedUnseen

\* C10: the turns replayed by the first completion call made after a New
\* Topic click contain none of the exchanges recorded before that click.
C10_NewTopicForgets ==
  obs.firstAfterTopic =>
     \A i \in 1..Len(obs.prior) : \A j \in 1..Len(topicHist) :
        obs.prior[i] # topicHist[j]
====
